---- MODULE Spec2Model ----
(***************************************************************************)
(* Offline synchronisation engine of the salesHub mobile client:           *)
(*   OfflineStorage (services/offline.ts)  - the persisted mutation queue  *)
(*   SyncService    (services/sync.ts)     - syncAll / queueOperation      *)
(*   BackgroundSyncService (services/backgroundSync.ts) - sync triggers    *)
(*                                                                         *)
(* Time is counted in ticks of half a day, so Date.now() is `clock`; the    *)
(* default eviction window of cleanupOldQueueItems is two ticks.           *)
(* Handlers are async: every action below is the code between two awaits   *)
(* on the network; storage reads/writes of one OfflineStorage method are   *)
(* taken together, except in SpecI, which takes them one by one.           *)
(***************************************************************************)
EXTENDS Integers, Sequences, FiniteSets, TLC

VARIABLES
    queue,          \* AsyncStorage['@offline_queue'] : sequence of OfflineQueueItem
    syncStatus,     \* AsyncStorage['@sync_status']   : NoStatus or the stored record
    cache,          \* AsyncStorage['@<table>_cache'] : lastUpdated per table (-1 = absent)
    clock,          \* Date.now()
    nextId,         \* number of queue items created so far + 1 (ids are unique)
    netOnline,      \* what NetInfo reports (the device's real connectivity)
    isOnline,       \* SyncService.isOnline
    syncInProgress, \* SyncService.syncInProgress
    pc,             \* per trigger: position inside syncAll
    loc,            \* per trigger: locals of the running syncAll
    lastAct,        \* the call that returned in the last step, with what it returned
    hist,           \* history: the items written to the remote, the items reported
    cyc,            \* per trigger: history of the running cycle
    prevQueue,      \* the stored queue before the last OfflineStorage call
    view,           \* what getPrioritizedQueue returned, when it ran last
    remote,         \* the remote tables: per table the rows a read returns, in order
    rows,           \* AsyncStorage['@<table>_cache'] : the cached data per table
    peer,           \* the products cache of a second device on the same remote
    faulty,         \* whether AsyncStorage calls may fail
    adding          \* the addToQueue calls between their read and their write

vars == <<queue, syncStatus, cache, clock, nextId, netOnline, isOnline,
          syncInProgress, pc, loc, lastAct, hist, cyc, prevQueue, view,
          remote, rows, peer, faulty, adding>>

----------------------------------------------------------------------------
(* Bounds *)

MaxItems  == 1      \* queue items the engine ever creates
MaxQItems == 3      \* queue items ever created in the queue store on its own
MaxClock  == 2      \* ticks the clock may advance
RemoteRows == 2     \* rows in each remote table at the start

----------------------------------------------------------------------------
(* Program constants *)

MAX_RETRY_COUNT      == 3       \* offline.ts:33
DEFAULT_HOURS_OLD    == 24      \* offline.ts:366
SMART_STALE_HOURS    == 2       \* backgroundSync.ts:158
BG_STALE_MINUTES     == 30      \* backgroundSync.ts:19

\* one tick of the clock, in hours
TickHours == DEFAULT_HOURS_OLD \div 2

Missing == ""                   \* undefined / absent field (falsy)

PullTables  == <<"products", "sales", "sellers", "categories">>
AllPullTables == {PullTables[i] : i \in 1..Len(PullTables)}
Triggers    == {"ui", "fg", "bg"}

\* the ranks of high and normal exchanged
priorityOrderSwapped(p) ==
    CASE p = "critical" -> 0
      [] p = "high"     -> 2
      [] p = "normal"   -> 1
      [] p = "low"      -> 3
      [] OTHER          -> 1

\* priorityOrder of getPrioritizedQueue, with  a.priority || 'normal'
priorityOrder(p) ==
    CASE p = "critical" -> 0
      [] p = "high"     -> 1
      [] p = "normal"   -> 2
      [] p = "low"      -> 3
      [] OTHER          -> 2


----------------------------------------------------------------------------
(* OfflineStorage: the queue methods as functions of the stored queue *)

NoResult == [success |-> FALSE, syncedItems |-> 0, failedItems |-> 0, errors |-> <<>>]

\* the item addToQueue builds: id, timestamp and retryCount are set here,
\* priority is  item.priority || 'normal'
newQueueItem(item, id, now) ==
    [id         |-> id,
     table      |-> item.table,
     type       |-> item.type,
     data       |-> item.data,
     timestamp  |-> now,
     retryCount |-> 0,
     priority   |-> IF item.priority # Missing THEN item.priority ELSE "normal"]

addToQueue(q, item, id, now) == Append(q, newQueueItem(item, id, now))

\* the filter kept the wrong way round
removeFromQueueInverted(q, itemId) == SelectSeq(q, LAMBDA it : it.id = itemId)

removeFromQueue(q, itemId) == SelectSeq(q, LAMBDA it : it.id # itemId)

updateQueueItem(q, itemId, retry) ==
    [i \in 1..Len(q) |-> IF q[i].id = itemId
                         THEN [q[i] EXCEPT !.retryCount = retry]
                         ELSE q[i]]

shouldRetryItem(item) == item.retryCount < MAX_RETRY_COUNT

getFailedItems(q) == SelectSeq(q, LAMBDA it : ~shouldRetryItem(it))

\* within one priority the newer item first
compareItemsNewestFirst(a, b) ==
    LET priorityDiff == priorityOrder(a.priority) - priorityOrder(b.priority)
    IN  IF priorityDiff # 0 THEN priorityDiff ELSE b.timestamp - a.timestamp

\* the comparator handed to Array.prototype.sort
compareItems(a, b) ==
    LET priorityDiff == priorityOrder(a.priority) - priorityOrder(b.priority)
    IN  IF priorityDiff # 0 THEN priorityDiff ELSE a.timestamp - b.timestamp

\* Array.prototype.sort is a stable comparison sort
RECURSIVE sortInsert(_, _)
sortInsert(s, x) ==
    IF s = <<>> THEN <<x>>
    ELSE IF compareItems(Head(s), x) <= 0
         THEN <<Head(s)>> \o sortInsert(Tail(s), x)
         ELSE <<x>> \o s

RECURSIVE getPrioritizedQueue(_)
getPrioritizedQueue(q) ==
    IF q = <<>> THEN <<>>
    ELSE sortInsert(getPrioritizedQueue(SubSeq(q, 1, Len(q) - 1)), q[Len(q)])

\* the key without the table
dedupKeyNoTable(item) ==
    <<"any",
      IF item.data.id # Missing THEN item.data.id
      ELSE IF item.data.name # Missing THEN item.data.name
      ELSE "unknown">>

\* `${item.table}_${item.data?.id || item.data?.name || 'unknown'}`
dedupKey(item) ==
    <<item.table,
      IF item.data.id # Missing THEN item.data.id
      ELSE IF item.data.name # Missing THEN item.data.name
      ELSE "unknown">>

seenIndex(seen, key) ==
    IF \E i \in 1..Len(seen) : dedupKey(seen[i]) = key
    THEN CHOOSE i \in 1..Len(seen) : dedupKey(seen[i]) = key
    ELSE 0

\* the loop over the queue from its last item to its first; `seen` is the Map,
\* kept as the sequence of its values in insertion order
RECURSIVE dedupLoop(_, _, _)
dedupLoop(q, i, seen) ==
    IF i = 0 THEN seen
    ELSE LET item == q[i]
             idx  == seenIndex(seen, dedupKey(item))
         IN  IF idx = 0
             THEN dedupLoop(q, i - 1, Append(seen, item))
             ELSE IF item.timestamp > seen[idx].timestamp
                  THEN dedupLoop(q, i - 1, [seen EXCEPT ![idx] = item])
                  ELSE dedupLoop(q, i - 1, seen)

\* Array.from(seen.values())
deduplicateQueue(q) == dedupLoop(q, Len(q), <<>>)

\* cutoffTime = Date.now() - hoursOld * 60 * 60 * 1000, compared in hours
cleanupOldQueueItems(q, hoursOld, now) ==
    SelectSeq(q, LAMBDA it : it.timestamp * TickHours > now * TickHours - hoursOld)

\* AsyncStorage calls fail only on a device whose storage is faulty
StorageOutcomes == IF faulty THEN {TRUE, FALSE} ELSE {TRUE}

\* getQueue: the stored queue, or [] when AsyncStorage.getItem fails
getQueue(q, readOk) == IF readOk THEN q ELSE <<>>

----------------------------------------------------------------------------
(* The queue store on its own: OfflineStorage's public queue methods called  *)
(* in any order, with any priority handed to addToQueue.                     *)

\* a payload: its id, its name, one more field, and the  priority  key that
\* createSale puts inside the payload
QData(id, name, val) == [id |-> id, name |-> name, val |-> val, priority |-> Missing]

QInputs ==
    { [table |-> "products", type |-> "update", data |-> QData("A", Missing, 1), priority |-> "normal"],
      [table |-> "products", type |-> "update", data |-> QData("A", Missing, 2), priority |-> "normal"],
      [table |-> "products", type |-> "delete", data |-> QData("B", Missing, 0), priority |-> "low"],
      [table |-> "sales",    type |-> "update", data |-> QData("A", Missing, 1), priority |-> "critical"],
      [table |-> "sales",    type |-> "create", data |-> QData(Missing, Missing, 1), priority |-> "high"],
      [table |-> "products", type |-> "create", data |-> QData(Missing, "n1", 1), priority |-> Missing] }

\* a row of a remote table and of a cache: its id, one field, its status
Row(id, f, status) == [id |-> id, f |-> f, status |-> status]

\* the ids of the rows a remote table holds at the start
RowIds == <<"P", "Q", "R", "S">>

RemoteTable(n) == [i \in 1..n |-> Row(RowIds[i], 10, "completed")]

\* what queueOperation did: the connectivity at the call, whether the remote
\* write was attempted, how the call ended, and the queue item it made
NoQueued == [online |-> TRUE, attempted |-> FALSE, outcome |-> "none", item |-> 0,
             lenBefore |-> 0]

\* `before`: at the return of a cycle, the id of the first item created after
\* the cycle had started
\* `clean`: no remote write of the cycle failed; `statusWrites`: the writes of
\* the SyncStatus the call made; `pulled`: the tables whose cache the call
\* wrote; `was`: the cached rows before the call
\* `logged`: the number of removed items the call wrote to the log
Act(op, who, result) ==
    [op |-> op, who |-> who, result |-> result, queued |-> NoQueued, before |-> 0,
     clean |-> TRUE, statusWrites |-> 0, pulled |-> {}, was |-> <<>>, logged |-> 0]

NoStatus == [lastSync |-> -1, isOnline |-> FALSE, pendingItems |-> -1]

\* `read`: the queue as the removeFromQueue or updateQueueItem call in
\* progress has read it
NoLocals == [snap |-> <<>>, idx |-> 0, outcome |-> "none",
             syncedItems |-> 0, failedItems |-> 0, errors |-> <<>>, read |-> <<>>]

\* `sent`: the items sent to the remote in this cycle, in the order sent;
\* `loaded`: the queue as syncOfflineQueue loaded it
NoCycle == [writes |-> 0, clean |-> TRUE, afterDrained |-> FALSE, firstNew |-> 0,
            sent |-> <<>>, loaded |-> <<>>]

Idle == Act("none", "none", NoResult)

Init ==
    /\ queue = <<>>
    /\ syncStatus = NoStatus
    /\ cache = [t \in AllPullTables |-> -1]
    /\ clock = 0
    /\ nextId = 1
    /\ netOnline = TRUE
    /\ isOnline = TRUE
    /\ syncInProgress = FALSE
    /\ pc = [t \in Triggers |-> "idle"]
    /\ loc = [t \in Triggers |-> NoLocals]
    /\ lastAct = Idle
    /\ hist = [written |-> {}, reported |-> {}, drained |-> 0, drainWrites |-> 0,
               tried |-> {}, sentOk |-> {}]
    /\ cyc = [t \in Triggers |-> NoCycle]
    /\ prevQueue = <<>>
    /\ view = <<>>
    /\ remote = [t \in AllPullTables |-> RemoteTable(RemoteRows)]
    /\ rows = [t \in AllPullTables |-> <<>>]
    /\ peer = <<>>
    /\ faulty = FALSE
    /\ adding = <<>>

dataVars == <<remote, rows, peer, faulty, adding>>

engineVars == <<syncStatus, cache, netOnline, isOnline, syncInProgress,
                pc, loc, hist, cyc>>

\* addToQueue: the queue is read (as [] when the read fails), the new item
\* pushed and the whole written back; a write that fails is thrown on
QAddToQueue(item) ==
    /\ nextId <= MaxQItems
    /\ prevQueue' = queue
    /\ \E rd, wr \in StorageOutcomes :
         IF wr
         THEN /\ queue' = addToQueue(getQueue(queue, rd), item, nextId, clock)
              /\ nextId' = nextId + 1
              /\ lastAct' = Act("addToQueue", "store", NoResult)
         ELSE /\ lastAct' = [Act("addToQueue", "store", NoResult) EXCEPT
                               !.queued = [NoQueued EXCEPT !.outcome = "error"]]
              /\ UNCHANGED <<queue, nextId>>
    /\ view' = <<>>
    /\ UNCHANGED <<clock, engineVars, dataVars>>

QDeduplicateQueue ==
    /\ prevQueue' = queue
    /\ queue' = deduplicateQueue(queue)
    /\ view' = <<>>
    /\ lastAct' = Act("deduplicateQueue", "store", NoResult)
    /\ UNCHANGED <<clock, nextId, engineVars, dataVars>>

\* cleanupOldQueueItems(): the queue is read (as [] when the read fails),
\* filtered and written back, and removedCount is logged when it is positive;
\* a write that fails is caught and only logged as an error
QCleanupOldQueueItems ==
    /\ prevQueue' = queue
    /\ \E rd, wr \in StorageOutcomes :
         LET read          == getQueue(queue, rd)
             filteredQueue == cleanupOldQueueItems(read, DEFAULT_HOURS_OLD, clock)
         IN  IF wr
             THEN /\ queue' = filteredQueue
                  /\ lastAct' = [Act("cleanupOldQueueItems", "store", NoResult) EXCEPT
                                   !.logged = Len(read) - Len(filteredQueue)]
             ELSE /\ queue' = queue
                  /\ lastAct' = Act("cleanupOldQueueItems", "store", NoResult)
    /\ view' = <<>>
    /\ UNCHANGED <<clock, nextId, engineVars, dataVars>>

QGetPrioritizedQueue ==
    /\ prevQueue' = queue
    /\ view' = getPrioritizedQueue(queue)
    /\ lastAct' = Act("getPrioritizedQueue", "store", NoResult)
    /\ UNCHANGED <<queue, clock, nextId, engineVars, dataVars>>

\* half a day passes
QTick ==
    /\ clock < MaxClock
    /\ clock' = clock + 1
    /\ prevQueue' = queue
    /\ view' = <<>>
    /\ lastAct' = Idle
    /\ UNCHANGED <<queue, nextId, engineVars, dataVars>>

NextQ ==
    \/ \E item \in QInputs : QAddToQueue(item)
    \/ QDeduplicateQueue
    \/ QCleanupOldQueueItems
    \/ QGetPrioritizedQueue
    \/ QTick

SpecQ == Init /\ [][NextQ]_vars


----------------------------------------------------------------------------
(* The engine: SyncService.syncAll run by independent triggers, next to      *)
(* queueOperation, the stores' mutations and the queue maintenance of the    *)
(* useOffline hook.                                                          *)

SaleData == [id |-> Missing, name |-> Missing, val |-> 1, priority |-> "high"]

\* what the stores hand to queueOperation: createSale, createProduct
Mutations ==
    { [table |-> "sales",    type |-> "create", data |-> SaleData],
      [table |-> "products", type |-> "create", data |-> QData(Missing, "n1", 1)] }

AlreadyResult ==
    [success |-> FALSE, syncedItems |-> 0, failedItems |-> 0,
     errors |-> <<[msg |-> "Sync already in progress", item |-> 0]>>]

OfflineResult ==
    [success |-> FALSE, syncedItems |-> 0, failedItems |-> 0,
     errors |-> <<[msg |-> "Device is offline", item |-> 0]>>]

\* the guard left out
syncGuardOff(inProgress) == FALSE

\* if (this.syncInProgress)
syncGuard(inProgress) == inProgress

\* SyncService.checkOnlineStatus: NetInfo's answer
checkOnlineStatus == netOnline

\* a remote call can succeed only while the device is connected
RemoteOutcomes == IF netOnline THEN {TRUE, FALSE} ELSE {FALSE}

hasRow(table, id) == \E i \in 1..Len(remote[table]) : remote[table][i].id = id

\* ApiService.update ends in .eq('id', id).select().single(), which is an
\* error when no row has that id; create and delete have no such condition
WriteOutcomes(item) ==
    IF item.type = "update" /\ ~hasRow(item.table, item.data.id)
    THEN {FALSE}
    ELSE RemoteOutcomes

\* what a queue item asks of the remote
operation(item) == <<item.table, item.type, item.data.id, item.data.val>>

\* the write changes nothing on the remote
remoteApplyNothing(r, item) == r

\* what an accepted write of processQueueItem does to the remote rows:
\* update(table, data.id, data) sets the fields of the row with that id,
\* delete(table, data.id) removes it. The row a create inserts gets an id of
\* the remote's own; it is counted in hist.written and is not among the rows
\* tracked here
remoteApply(r, item) ==
    CASE item.type = "update" ->
            [r EXCEPT ![item.table] =
                [i \in 1..Len(@) |-> IF @[i].id = item.data.id
                                     THEN [@[i] EXCEPT !.f = item.data.val]
                                     ELSE @[i]]]
      [] item.type = "delete" ->
            [r EXCEPT ![item.table] = SelectSeq(@, LAMBDA row : row.id # item.data.id)]
      [] OTHER -> r

\* the conditions under which each trigger calls syncAll
triggerFires(t) ==
    CASE t = "ui" -> TRUE
      [] t = "fg" -> /\ checkOnlineStatus
                     /\ \/ Len(queue) > 0
                        \/ syncStatus = NoStatus
                        \/ (clock - syncStatus.lastSync) * TickHours > SMART_STALE_HOURS
      [] t = "bg" -> \/ Len(queue) > 0
                     \/ /\ syncStatus # NoStatus
                        /\ (clock - syncStatus.lastSync) * TickHours * 60 > BG_STALE_MINUTES

storeVars == <<prevQueue, view>>

\* syncAll up to its first await: the two guards and the flag
SyncAll(t) ==
    /\ pc[t] = "idle"
    /\ triggerFires(t)
    /\ IF syncGuard(syncInProgress)
       THEN /\ lastAct' = Act("syncAll", t, AlreadyResult)
            /\ UNCHANGED <<queue, syncStatus, cache, clock, nextId, netOnline, isOnline,
                           syncInProgress, pc, loc, hist, cyc, storeVars, dataVars>>
       ELSE IF ~isOnline
       THEN /\ lastAct' = Act("syncAll", t, OfflineResult)
            /\ UNCHANGED <<queue, syncStatus, cache, clock, nextId, netOnline, isOnline,
                           syncInProgress, pc, loc, hist, cyc, storeVars, dataVars>>
       ELSE /\ syncInProgress' = TRUE
            /\ pc' = [pc EXCEPT ![t] = "prepare"]
            /\ loc' = [loc EXCEPT ![t] = NoLocals]
            /\ cyc' = [cyc EXCEPT ![t] = [NoCycle EXCEPT
                                            !.afterDrained = hist.drained > 0,
                                            !.firstNew = nextId]]
            /\ lastAct' = Act("performSync", t, NoResult)
            /\ UNCHANGED <<queue, syncStatus, cache, clock, nextId, netOnline, isOnline,
                           hist, storeVars, dataVars>>

\* syncOfflineQueue up to the loop: cleanupOldQueueItems, deduplicateQueue,
\* getPrioritizedQueue, detectConflicts (which only logs)
DrainPrepare(t) ==
    /\ pc[t] = "prepare"
    /\ \E rd1, wr1, rd2, wr2, rd3 \in StorageOutcomes :
       LET cleaned == IF wr1
                      THEN cleanupOldQueueItems(getQueue(queue, rd1), DEFAULT_HOURS_OLD, clock)
                      ELSE queue
           deduped == IF wr2 THEN deduplicateQueue(getQueue(cleaned, rd2)) ELSE cleaned
           snap    == getPrioritizedQueue(getQueue(deduped, rd3))
       IN  /\ queue' = deduped
           /\ loc' = [loc EXCEPT ![t].snap = snap, ![t].idx = 1]
           /\ cyc' = [cyc EXCEPT ![t].loaded = snap]
           /\ pc' = [pc EXCEPT ![t] = IF snap = <<>> THEN "pull" ELSE "write"]
    /\ lastAct' = Idle
    /\ UNCHANGED <<syncStatus, cache, clock, nextId, netOnline, isOnline, syncInProgress,
                   hist, storeVars, dataVars>>

\* for (const item of queue): await this.processQueueItem(item)
DrainWrite(t) ==
    /\ pc[t] = "write"
    /\ LET item == loc[t].snap[loc[t].idx]
       IN  \E ok \in WriteOutcomes(item) :
             /\ loc' = [loc EXCEPT ![t].outcome = IF ok THEN "ok" ELSE "failed"]
             /\ hist' = [hist EXCEPT !.written = IF ok THEN @ \cup {item.id} ELSE @,
                                     !.tried = @ \cup {item.id},
                                     !.sentOk = IF ok THEN @ \cup {operation(item)} ELSE @]
             /\ cyc' = [cyc EXCEPT ![t].writes = @ + 1,
                                   ![t].clean = @ /\ ok,
                                   ![t].sent = Append(@, item)]
             /\ remote' = IF ok THEN remoteApply(remote, item) ELSE remote
    /\ pc' = [pc EXCEPT ![t] = "settle"]
    /\ lastAct' = Idle
    /\ UNCHANGED <<queue, syncStatus, cache, clock, nextId, netOnline, isOnline,
                   syncInProgress, storeVars, rows, peer, faulty, adding>>

\* what performSync returns from its catch: the counters it had added up so
\* far (none before syncOfflineQueue returns), one more failure, one message
abortLocals ==
    [NoLocals EXCEPT !.failedItems = 1,
                     !.errors = <<[msg |-> "Sync error", item |-> 0]>>]

\* the rest of the loop body: removeFromQueue on success; in the catch,
\* updateQueueItem while shouldRetryItem(item), else failedItems++ and an error.
\* An AsyncStorage write that fails in removeFromQueue throws into the same
\* catch; one that fails in updateQueueItem throws out of the loop, out of
\* syncOfflineQueue and into the catch of performSync
DrainSettle(t) ==
    /\ pc[t] = "settle"
    /\ \E rd, wr, rd2, wr2 \in StorageOutcomes :
       LET item == loc[t].snap[loc[t].idx]
           last == loc[t].idx = Len(loc[t].snap)
           l1   == [loc[t] EXCEPT !.outcome = "none", !.idx = @ + 1]
           next == IF last THEN "pull" ELSE "write"
       IN  IF loc[t].outcome = "ok" /\ wr
           THEN /\ queue' = removeFromQueue(getQueue(queue, rd), item.id)
                /\ loc' = [loc EXCEPT ![t] = [l1 EXCEPT !.syncedItems = @ + 1]]
                /\ pc' = [pc EXCEPT ![t] = next]
           ELSE IF shouldRetryItem(item)
           THEN IF \E i \in 1..Len(getQueue(queue, rd2)) : queue[i].id = item.id
                THEN IF wr2
                     THEN /\ queue' = updateQueueItem(queue, item.id, item.retryCount + 1)
                          /\ loc' = [loc EXCEPT ![t] = l1]
                          /\ pc' = [pc EXCEPT ![t] = next]
                     ELSE /\ queue' = queue
                          /\ loc' = [loc EXCEPT ![t] = abortLocals]
                          /\ pc' = [pc EXCEPT ![t] = "abort"]
                ELSE /\ queue' = queue
                     /\ loc' = [loc EXCEPT ![t] = l1]
                     /\ pc' = [pc EXCEPT ![t] = next]
           ELSE /\ queue' = queue
                /\ loc' = [loc EXCEPT ![t] =
                             [l1 EXCEPT !.failedItems = @ + 1,
                                        !.errors = Append(@, [msg |-> "Failed to sync item",
                                                              item |-> item.id])]]
                /\ pc' = [pc EXCEPT ![t] = next]
    /\ lastAct' = Idle
    /\ UNCHANGED <<syncStatus, cache, clock, nextId, netOnline, isOnline, syncInProgress,
                   hist, cyc, storeVars, dataVars>>

\* id.startsWith('temp_')
TempIds == {"temp_1"}

isTemp(id) == id \in TempIds

\* new Map(list.map(s => [s.id, s])).get(id): the last row with that id, or
\* none
mapGet(list, id) ==
    LET at == {i \in 1..Len(list) : list[i].id = id}
    IN  IF at = {} THEN <<>>
        ELSE <<list[CHOOSE i \in at : \A j \in at : j <= i]>>

\* a product cached locally is kept as cached
syncProductsLocalWins(serverProducts, localProducts) ==
    [i \in 1..Len(serverProducts) |->
        IF mapGet(localProducts, serverProducts[i].id) # <<>>
        THEN mapGet(localProducts, serverProducts[i].id)[1]
        ELSE serverProducts[i]]

\* syncProductsWithConflictResolution: the conflicts are only logged,
\* resolvedProducts = [...serverProducts]
syncProductsWithConflictResolution(serverProducts, localProducts) ==
    serverProducts

\* !(localSale && localSale.status === 'pending' && localSale.id.startsWith('temp_'))
keepServerSale(serverSale, localSales) ==
    LET localSale == mapGet(localSales, serverSale.id)
    IN  ~(localSale # <<>> /\ localSale[1].status = "pending" /\ isTemp(localSale[1].id))

\* the pending local sales are not added back
pendingLocalSalesNone(localSales) == <<>>

\* localSales.filter(sale => sale.id.startsWith('temp_') && sale.status === 'pending')
pendingLocalSales(localSales) ==
    SelectSeq(localSales, LAMBDA sale : isTemp(sale.id) /\ sale.status = "pending")

\* syncSalesWithConflictResolution: the server's sales without those that a
\* local pending sale shadows, then the local pending sales
syncSalesWithConflictResolution(serverSales, localSales) ==
    SelectSeq(serverSales, LAMBDA serverSale : keepServerSale(serverSale, localSales))
        \o pendingLocalSales(localSales)

\* what one table's step of syncFromServer hands to cacheProducts / cacheSales /
\* cacheSellers / cacheCategories; readOk: getCachedSales could read the cache
\* (it returns null when it cannot, and localSales is then [])
resolved(table, server, local, readOk) ==
    CASE table = "products" -> syncProductsWithConflictResolution(server, local)
      [] table = "sales"    -> syncSalesWithConflictResolution(server,
                                    IF readOk THEN local ELSE <<>>)
      [] OTHER              -> server

\* a table's step is skipped as if it had succeeded
pullStepSkipped(table, ok, st, l, stored, readOk, now) == [st |-> st, l |-> l]

\* one try/catch of syncFromServer. ok: the remote read succeeded; stored: the
\* cache write succeeded
pullStep(table, ok, st, l, stored, readOk, now) ==
    IF ok /\ stored
    THEN [st |-> [cache |-> [st.cache EXCEPT ![table] = now],
                  rows  |-> [st.rows EXCEPT ![table] =
                                resolved(table, st.remote[table], @, readOk)],
                  remote |-> st.remote],
          l  |-> [l EXCEPT !.syncedItems = @ + Len(st.remote[table])]]
    ELSE [st |-> st,
          l  |-> [l EXCEPT !.failedItems = @ + 1,
                           !.errors = Append(@, [msg |-> "Failed to sync " \o table,
                                                 item |-> 0])]]

\* syncFromServer: the four reads, each in its own try/catch, in the order of
\* PullTables. oks: the tables whose read succeeds; wr: those whose cache
\* write succeeds
RECURSIVE pullAll(_, _, _, _, _, _)
pullAll(k, oks, wr, readOk, st, l) ==
    IF k > Len(PullTables) THEN [st |-> st, loc |-> l]
    ELSE LET r == pullStep(PullTables[k], PullTables[k] \in oks, st, l,
                           PullTables[k] \in wr, readOk, clock)
         IN  pullAll(k + 1, oks, wr, readOk, r.st, r.l)

\* the tables whose cache write succeeds
CacheWriteSets == IF faulty THEN SUBSET AllPullTables ELSE {AllPullTables}

\* the reads that succeed in one cycle: all of them or all but the sales,
\* none while the device is not connected
PullSets ==
    IF netOnline THEN {AllPullTables, AllPullTables \ {"sales"}} ELSE {{}}

\* performSync's result
syncResult(l) ==
    [success |-> l.failedItems = 0, syncedItems |-> l.syncedItems,
     failedItems |-> l.failedItems, errors |-> l.errors]

reportedIn(result) ==
    {result.errors[i].item : i \in 1..Len(result.errors)} \ {0}

\* hist.drained: 0, or 1 once a cycle has returned in which the remote accepted
\* every write and during which nothing was enqueued, or 2 once one more cycle
\* has returned after that; back to 0 when something is enqueued
drainedAfter(d, c) ==
    IF c.clean /\ nextId = c.firstNew
    THEN (IF c.afterDrained /\ d > 0 THEN 2 ELSE 1)
    ELSE 0

\* what syncAll returns from its catch
FailureResult ==
    [success |-> FALSE, syncedItems |-> 0, failedItems |-> 0,
     errors |-> <<[msg |-> "Unknown sync error", item |-> 0]>>]

\* OfflineStorage.setSyncStatus({ lastSync: Date.now(), isOnline: true,
\* pendingItems: result.failedItems }); stored: the AsyncStorage write succeeded
statusAfter(status, stored, now, result) ==
    IF stored
    THEN [lastSync |-> now, isOnline |-> TRUE, pendingItems |-> result.failedItems]
    ELSE status

\* the error of setSyncStatus leaves syncAll
syncAllNoCatch(stored, result) ==
    IF stored THEN result ELSE NoResult

\* try { ... return result } catch (error) { return { success: false,
\* syncedItems: 0, failedItems: 0, errors: [...] } } of syncAll
syncAllCatch(stored, result) ==
    IF stored THEN result ELSE FailureResult

\* the flag is cleared at the end of the try block only
inProgressAfterTry(stored) == ~stored

\* finally { this.syncInProgress = false }
inProgressAfter(stored) ==
    FALSE

\* the rest of performSync and of syncAll, oks being the tables whose remote
\* read succeeds: syncFromServer (not reached when syncOfflineQueue threw),
\* setSyncStatus, return result - or, when setSyncStatus threw, the result of
\* the catch -, finally syncInProgress = false
SyncAllFinish(t, oks) ==
    /\ pc[t] \in {"pull", "abort"}
    /\ \E wr \in CacheWriteSets, readOk \in StorageOutcomes, stored \in StorageOutcomes :
         LET r      == IF pc[t] = "pull"
                       THEN pullAll(1, oks, wr, readOk,
                                    [cache |-> cache, rows |-> rows, remote |-> remote],
                                    loc[t])
                       ELSE [st |-> [cache |-> cache, rows |-> rows, remote |-> remote],
                             loc |-> loc[t]]
             result == syncResult(r.loc)
         IN  /\ cache' = r.st.cache
             /\ rows' = r.st.rows
             /\ syncStatus' = statusAfter(syncStatus, stored, clock, result)
             /\ lastAct' = [Act("syncAll", t, syncAllCatch(stored, result))
                               EXCEPT !.before = cyc[t].firstNew,
                                      !.clean = cyc[t].clean,
                                      !.statusWrites = IF stored THEN 1 ELSE 0,
                                      !.pulled = IF pc[t] = "pull" THEN oks \cap wr ELSE {},
                                      !.was = rows]
             /\ hist' = [hist EXCEPT
                           !.reported = @ \cup (IF stored THEN reportedIn(result) ELSE {}),
                           !.drained = drainedAfter(hist.drained, cyc[t]),
                           !.drainWrites = IF drainedAfter(hist.drained, cyc[t]) = 1
                                           THEN cyc[t].writes
                                           ELSE IF drainedAfter(hist.drained, cyc[t]) = 0
                                                THEN 0 ELSE @]
             /\ syncInProgress' = inProgressAfter(stored)
    /\ pc' = [pc EXCEPT ![t] = "idle"]
    /\ loc' = [loc EXCEPT ![t] = NoLocals]
    /\ cyc' = [cyc EXCEPT ![t] = NoCycle]
    /\ UNCHANGED <<queue, clock, nextId, netOnline, isOnline, storeVars,
                   remote, peer, faulty, adding>>

SyncAllReturn(t) == \E oks \in PullSets : SyncAllFinish(t, oks)

\* the object queueOperation hands to addToQueue: { table, type, data }
operationItem(m) ==
    [table |-> m.table, type |-> m.type, data |-> m.data, priority |-> Missing]

\* the write is never tried first
executeNowNever(flag) == FALSE

\* if (this.isOnline)
executeNow(flag) ==
    flag

\* what lastAct.queued records of a call
Queued(attempted, outcome, item) ==
    [online |-> netOnline, attempted |-> attempted, outcome |-> outcome,
     item |-> item, lenBefore |-> Len(queue)]

\* OfflineStorage.addToQueue as queueOperation calls it: the queue is read
\* (as [] when the read fails), the new item pushed and the whole written
\* back; a write that fails is thrown on to the caller of queueOperation
enqueue(m, who, attempted, outcome) ==
    \E rd, wr \in StorageOutcomes :
        IF wr
        THEN /\ queue' = addToQueue(getQueue(queue, rd), operationItem(m), nextId, clock)
             /\ nextId' = nextId + 1
             /\ hist' = [hist EXCEPT !.drained = 0, !.drainWrites = 0,
                                     !.tried = IF attempted THEN @ \cup {nextId} ELSE @]
             /\ lastAct' = [Act("queueOperation", who, NoResult) EXCEPT
                               !.queued = Queued(attempted, outcome, nextId)]
        ELSE /\ lastAct' = [Act("queueOperation", who, NoResult) EXCEPT
                               !.queued = Queued(attempted, "error", 0)]
             /\ UNCHANGED <<queue, nextId, hist>>

\* SyncService.queueOperation(table, type, data)
queueOperation(m, who) ==
    /\ nextId <= MaxItems
    /\ IF executeNow(isOnline)
       THEN \E ok \in WriteOutcomes(m) :
              IF ok
              THEN /\ lastAct' = [Act("queueOperation", who, NoResult) EXCEPT
                                    !.queued = Queued(TRUE, "executed", 0)]
                   /\ remote' = remoteApply(remote, m)
                   /\ UNCHANGED <<queue, nextId, hist>>
              ELSE /\ enqueue(m, who, TRUE, "error")
                   /\ remote' = remote
       ELSE /\ enqueue(m, who, FALSE, "queued")
            /\ remote' = remote
    /\ UNCHANGED <<syncStatus, cache, clock, netOnline, isOnline, syncInProgress,
                   pc, loc, cyc, storeVars, rows, peer, faulty, adding>>

\* useOffline().queueOperation: the hook hands the call through
HookQueueOperation(m) == queueOperation(m, "hook")

\* createSale / createProduct / updateProduct / deleteProduct of the stores:
\* online the service is called directly, offline the mutation goes to
\* queueOperation
StoreMutation(m) ==
    IF checkOnlineStatus
    THEN /\ \E ok \in WriteOutcomes(m) :
              remote' = IF ok THEN remoteApply(remote, m) ELSE remote
         /\ lastAct' = Act("storeMutation", "store", NoResult)
         /\ UNCHANGED <<queue, syncStatus, cache, clock, nextId, netOnline, isOnline,
                        syncInProgress, pc, loc, hist, cyc, storeVars, rows, peer, faulty, adding>>
    ELSE queueOperation(m, "store")

\* useOffline().cleanupQueue / deduplicateQueue
HookCleanupQueue ==
    /\ queue' = cleanupOldQueueItems(queue, DEFAULT_HOURS_OLD, clock)
    /\ lastAct' = Act("cleanupOldQueueItems", "hook", NoResult)
    /\ UNCHANGED <<syncStatus, cache, clock, nextId, netOnline, isOnline, syncInProgress,
                   pc, loc, hist, cyc, storeVars, dataVars>>

HookDeduplicateQueue ==
    /\ queue' = deduplicateQueue(queue)
    /\ lastAct' = Act("deduplicateQueue", "hook", NoResult)
    /\ UNCHANGED <<syncStatus, cache, clock, nextId, netOnline, isOnline, syncInProgress,
                   pc, loc, hist, cyc, storeVars, dataVars>>

\* NetInfo: the device gains or loses connectivity
NetChange ==
    /\ netOnline' = ~netOnline
    /\ lastAct' = Idle
    /\ UNCHANGED <<queue, syncStatus, cache, clock, nextId, isOnline, syncInProgress,
                   pc, loc, hist, cyc, storeVars, dataVars>>

\* a day passes
Tick ==
    /\ clock + DEFAULT_HOURS_OLD \div TickHours <= MaxClock
    /\ clock' = clock + DEFAULT_HOURS_OLD \div TickHours
    /\ lastAct' = Idle
    /\ UNCHANGED <<queue, syncStatus, cache, nextId, netOnline, isOnline, syncInProgress,
                   pc, loc, hist, cyc, storeVars, dataVars>>

Next ==
    \/ \E t \in Triggers : SyncAll(t)
    \/ \E t \in Triggers : DrainPrepare(t)
    \/ \E t \in Triggers : DrainWrite(t)
    \/ \E t \in Triggers : DrainSettle(t)
    \/ \E t \in Triggers : SyncAllReturn(t)
    \/ \E m \in Mutations : HookQueueOperation(m)
    \/ \E m \in Mutations : StoreMutation(m)
    \/ HookCleanupQueue
    \/ HookDeduplicateQueue
    \/ NetChange
    \/ Tick

Spec == Init /\ [][Next]_vars

----------------------------------------------------------------------------
(* One drain after another over a queue filled through addToQueue with any   *)
(* priority: one caller of syncAll, the remote accepting or refusing each    *)
(* write and answering every read.                                           *)

DInputs ==
    { [table |-> "products", type |-> "update", data |-> QData("P", Missing, 8), priority |-> "low"],
      [table |-> "products", type |-> "delete", data |-> QData("Q", Missing, 0), priority |-> "low"],
      [table |-> "sales",    type |-> "update", data |-> QData("P", Missing, 1), priority |-> "critical"] }

\* the queue is filled before the first cycle
FillQueue(item) ==
    /\ pc["ui"] = "idle"
    /\ syncStatus = NoStatus
    /\ QAddToQueue(item)

NextD ==
    \/ \E item \in DInputs : FillQueue(item)
    \/ SyncAll("ui")
    \/ DrainPrepare("ui")
    \/ DrainWrite("ui")
    \/ DrainSettle("ui")
    \/ SyncAllFinish("ui", AllPullTables)
    \/ QTick

SpecD == Init /\ [][NextD]_vars


----------------------------------------------------------------------------
(* The caches: one caller of syncAll on a device whose sales cache may hold   *)
(* an optimistic sale and which creates sales, any of the remote reads       *)
(* failing, while a second device changes the products on the remote.        *)

PAGE_SIZE == 20

\* the sale createSale shows while its create is queued
OptimisticSale == Row("temp_1", 1, "pending")

\* createSale
PMutations ==
    { [table |-> "sales",    type |-> "create", data |-> SaleData] }

\* updateProduct(P, { stock: 8 }), deleteProduct(Q)
ProductMutations ==
    { [table |-> "products", type |-> "update", data |-> QData("P", Missing, 8)],
      [table |-> "products", type |-> "delete", data |-> QData("Q", Missing, 0)] }

\* the reads that succeed in one cycle: any of them while the device is
\* connected
AnyPullSets == IF netOnline THEN SUBSET AllPullTables ELSE {{}}

InitP ==
    /\ queue = <<>>
    /\ syncStatus = NoStatus
    /\ rows \in { [t \in AllPullTables |-> IF t = "sales" THEN sales ELSE <<>>] :
                     sales \in {<<>>, <<OptimisticSale>>} }
    /\ cache = [t \in AllPullTables |-> IF rows[t] = <<>> THEN -1 ELSE 0]
    /\ clock = 0
    /\ nextId = 1
    /\ netOnline = TRUE
    /\ isOnline = TRUE
    /\ syncInProgress = FALSE
    /\ pc = [t \in Triggers |-> "idle"]
    /\ loc = [t \in Triggers |-> NoLocals]
    /\ lastAct = Idle
    /\ hist = [written |-> {}, reported |-> {}, drained |-> 0, drainWrites |-> 0,
               tried |-> {}, sentOk |-> {}]
    /\ cyc = [t \in Triggers |-> NoCycle]
    /\ prevQueue = <<>>
    /\ view = <<>>
    /\ remote = [t \in AllPullTables |-> RemoteTable(RemoteRows)]
    /\ peer = <<>>
    /\ faulty = FALSE
    /\ adding = <<>>

\* updateProduct / deleteProduct on the second device, connected: the
\* service call changes the remote
PeerWrite(m) ==
    /\ remote' = remoteApply(remote, m)
    /\ remote' # remote
    /\ lastAct' = Idle
    /\ UNCHANGED <<queue, syncStatus, cache, clock, nextId, netOnline, isOnline,
                   syncInProgress, pc, loc, hist, cyc, storeVars, rows, peer, faulty, adding>>

NextP ==
    \/ \E m \in PMutations : StoreMutation(m)
    \/ SyncAll("ui")
    \/ DrainPrepare("ui")
    \/ DrainWrite("ui")
    \/ DrainSettle("ui")
    \/ \E oks \in AnyPullSets : SyncAllFinish("ui", oks)
    \/ \E m \in ProductMutations : PeerWrite(m)
    \/ NetChange

SpecP == InitP /\ [][NextP]_vars

----------------------------------------------------------------------------
(* Two devices on one remote: this one updates and deletes products, from    *)
(* its stores and through its queue, and fetches the products for its store; *)
(* the second one pulls.                                                     *)

\* fetchProducts of the products store, page 1, the device being connected:
\* the first page of the remote's products is read and handed to
\* cacheProducts
FetchProducts ==
    /\ checkOnlineStatus
    /\ \E ok \in RemoteOutcomes, stored \in StorageOutcomes :
         /\ rows' = IF ok /\ stored
                    THEN [rows EXCEPT !["products"] =
                            SubSeq(remote["products"], 1,
                                   IF Len(remote["products"]) < PAGE_SIZE
                                   THEN Len(remote["products"]) ELSE PAGE_SIZE)]
                    ELSE rows
         /\ cache' = IF ok /\ stored THEN [cache EXCEPT !["products"] = clock] ELSE cache
         /\ lastAct' = IF ok /\ stored
                       THEN [Act("fetchProducts", "store", NoResult) EXCEPT
                               !.pulled = {"products"}, !.was = rows]
                       ELSE Idle
    /\ UNCHANGED <<queue, syncStatus, clock, nextId, netOnline, isOnline, syncInProgress,
                   pc, loc, hist, cyc, storeVars, remote, peer, faulty, adding>>

\* a pull of the products on the second device that succeeds
PeerPull ==
    /\ peer' = syncProductsWithConflictResolution(remote["products"], peer)
    /\ lastAct' = [Act("syncFromServer", "peer", NoResult) EXCEPT !.was = peer]
    /\ UNCHANGED <<queue, syncStatus, cache, clock, nextId, netOnline, isOnline,
                   syncInProgress, pc, loc, hist, cyc, storeVars, remote, rows, faulty, adding>>

NextB ==
    \/ \E m \in ProductMutations : StoreMutation(m)
    \/ SyncAll("ui")
    \/ DrainPrepare("ui")
    \/ DrainWrite("ui")
    \/ DrainSettle("ui")
    \/ SyncAllReturn("ui")
    \/ FetchProducts
    \/ PeerPull
    \/ NetChange

SpecB == Init /\ [][NextB]_vars

----------------------------------------------------------------------------
(* The first cycles of a device whose AsyncStorage may reject any read or    *)
(* write: of the queue, of the caches and of the sync status.                *)

InitF ==
    /\ queue = <<>>
    /\ syncStatus = NoStatus
    /\ cache = [t \in AllPullTables |-> -1]
    /\ clock = 0
    /\ nextId = 1
    /\ netOnline = TRUE
    /\ isOnline = TRUE
    /\ syncInProgress = FALSE
    /\ pc = [t \in Triggers |-> "idle"]
    /\ loc = [t \in Triggers |-> NoLocals]
    /\ lastAct = Idle
    /\ hist = [written |-> {}, reported |-> {}, drained |-> 0, drainWrites |-> 0,
               tried |-> {}, sentOk |-> {}]
    /\ cyc = [t \in Triggers |-> NoCycle]
    /\ prevQueue = <<>>
    /\ view = <<>>
    /\ remote = [t \in AllPullTables |-> RemoteTable(RemoteRows)]
    /\ rows = [t \in AllPullTables |-> <<>>]
    /\ peer = <<>>
    /\ faulty = TRUE
    /\ adding = <<>>

\* queueOperation called before the first cycle
FirstOperation(m) ==
    /\ pc["ui"] = "idle"
    /\ hist.drained = 0
    /\ syncStatus = NoStatus
    /\ HookQueueOperation(m)

\* syncAll called as long as nothing has been stored, neither a status nor a
\* cache
FirstSyncAll ==
    /\ syncStatus = NoStatus
    /\ \A tb \in AllPullTables : cache[tb] = -1
    /\ SyncAll("ui")

NextF ==
    \/ \E m \in Mutations : FirstOperation(m)
    \/ FirstSyncAll
    \/ DrainPrepare("ui")
    \/ DrainWrite("ui")
    \/ DrainSettle("ui")
    \/ SyncAllReturn("ui")

SpecF == InitF /\ [][NextF]_vars

\* every await of a cycle settles: the storage and the remote answer or fail,
\* and the code after the await runs
FairF ==
    /\ WF_vars(DrainPrepare("ui"))
    /\ WF_vars(DrainWrite("ui"))
    /\ WF_vars(DrainSettle("ui"))
    /\ WF_vars(SyncAllReturn("ui"))

\* createSale alone
LMutations == { [table |-> "sales", type |-> "create", data |-> SaleData] }

NextL ==
    \/ \E m \in LMutations : FirstOperation(m)
    \/ FirstSyncAll
    \/ DrainPrepare("ui")
    \/ DrainWrite("ui")
    \/ DrainSettle("ui")
    \/ SyncAllReturn("ui")

SpecL == InitF /\ [][NextL]_vars /\ FairF

----------------------------------------------------------------------------
(* Writes the backend refuses and the retry of exhausted items: syncAll next *)
(* to useOffline().retryFailedOperations, which the user may start at any    *)
(* time and more than once.                                                  *)

\* the callers of retryFailedOperations
Retriers == {"retry", "again"}

\* updateProduct of a product the remote holds no more, and of one it holds
RMutations ==
    { [table |-> "products", type |-> "update", data |-> QData(RowIds[4], Missing, 8)],
      [table |-> "products", type |-> "update", data |-> QData(RowIds[1], Missing, 8)] }

InitR ==
    /\ queue = <<>>
    /\ syncStatus = NoStatus
    /\ cache = [t \in AllPullTables |-> -1]
    /\ clock = 0
    /\ nextId = 1
    /\ netOnline = TRUE
    /\ isOnline = TRUE
    /\ syncInProgress = FALSE
    /\ pc = [t \in Triggers \cup Retriers |-> "idle"]
    /\ loc = [t \in Triggers \cup Retriers |-> NoLocals]
    /\ lastAct = Idle
    /\ hist = [written |-> {}, reported |-> {}, drained |-> 0, drainWrites |-> 0,
               tried |-> {}, sentOk |-> {}]
    /\ cyc = [t \in Triggers \cup Retriers |-> NoCycle]
    /\ prevQueue = <<>>
    /\ view = <<>>
    /\ remote = [t \in AllPullTables |-> RemoteTable(RemoteRows)]
    /\ rows = [t \in AllPullTables |-> <<>>]
    /\ peer = <<>>
    /\ faulty = FALSE
    /\ adding = <<>>

\* retryFailedOperations up to its loop: getFailedItems(), the items of the
\* stored queue that shouldRetryItem refuses; with none it returns at once
RetryStart(c) ==
    /\ pc[c] = "idle"
    /\ LET failedItems == getFailedItems(queue)
       IN  IF failedItems = <<>>
           THEN /\ lastAct' = Act("retryFailedOperations", c,
                                  [NoResult EXCEPT !.success = TRUE])
                /\ UNCHANGED <<pc, loc>>
           ELSE /\ pc' = [pc EXCEPT ![c] = "write"]
                /\ loc' = [loc EXCEPT ![c] = [NoLocals EXCEPT !.snap = failedItems,
                                                              !.idx = 1]]
                /\ lastAct' = Idle
    /\ UNCHANGED <<queue, syncStatus, cache, clock, nextId, netOnline, isOnline,
                   syncInProgress, hist, cyc, storeVars, dataVars>>

\* the rest of the loop body of retryFailedOperations: removeFromQueue on
\* success; in the catch failedItemsCount++ and an error; after the last item
\* the result is returned
RetrySettle(c) ==
    /\ c \in Retriers
    /\ pc[c] = "settle"
    /\ LET item == loc[c].snap[loc[c].idx]
           last == loc[c].idx = Len(loc[c].snap)
           l1   == [loc[c] EXCEPT !.outcome = "none", !.idx = @ + 1]
           l2   == IF loc[c].outcome = "ok"
                   THEN [l1 EXCEPT !.syncedItems = @ + 1]
                   ELSE [l1 EXCEPT !.failedItems = @ + 1,
                                   !.errors = Append(@, [msg |-> "Failed to retry",
                                                         item |-> item.id])]
       IN  /\ queue' = IF loc[c].outcome = "ok"
                       THEN removeFromQueue(queue, item.id)
                       ELSE queue
           /\ IF last
              THEN /\ lastAct' = Act("retryFailedOperations", c, syncResult(l2))
                   /\ pc' = [pc EXCEPT ![c] = "idle"]
                   /\ loc' = [loc EXCEPT ![c] = NoLocals]
                   /\ cyc' = [cyc EXCEPT ![c] = NoCycle]
              ELSE /\ lastAct' = Idle
                   /\ pc' = [pc EXCEPT ![c] = "write"]
                   /\ loc' = [loc EXCEPT ![c] = l2]
                   /\ cyc' = cyc
    /\ UNCHANGED <<syncStatus, cache, clock, nextId, netOnline, isOnline,
                   syncInProgress, hist, storeVars, dataVars>>

NextR ==
    \/ \E m \in RMutations : HookQueueOperation(m)
    \/ SyncAll("ui")
    \/ DrainPrepare("ui")
    \/ \E c \in {"ui"} \cup Retriers : DrainWrite(c)
    \/ DrainSettle("ui")
    \/ SyncAllFinish("ui", AllPullTables)
    \/ \E c \in Retriers : RetryStart(c)
    \/ \E c \in Retriers : RetrySettle(c)

SpecR == InitR /\ [][NextR]_vars

----------------------------------------------------------------------------
(* The queue store on a device whose AsyncStorage may reject any read or     *)
(* write.                                                                    *)

NextS ==
    \/ \E item \in QInputs : QAddToQueue(item)
    \/ QCleanupOldQueueItems
    \/ QTick

SpecS == InitF /\ [][NextS]_vars

----------------------------------------------------------------------------
(* The stored queue under calls that overlap: every OfflineStorage method    *)
(* awaits AsyncStorage.getItem, changes the array it got and awaits          *)
(* AsyncStorage.setItem, and another call may run between the two. Here      *)
(* addToQueue, removeFromQueue and updateQueueItem are taken in these two    *)
(* steps each, with one item queued before.                                  *)

\* an update queued earlier, its first write having failed
Earlier ==
    newQueueItem(operationItem([table |-> "products", type |-> "update",
                                data |-> QData(RowIds[1], Missing, 8)]), 0, 0)

InitI ==
    /\ queue = <<Earlier>>
    /\ syncStatus = NoStatus
    /\ cache = [t \in AllPullTables |-> -1]
    /\ clock = 0
    /\ nextId = 1
    /\ netOnline = TRUE
    /\ isOnline = TRUE
    /\ syncInProgress = FALSE
    /\ pc = [t \in Triggers |-> "idle"]
    /\ loc = [t \in Triggers |-> NoLocals]
    /\ lastAct = Idle
    /\ hist = [written |-> {}, reported |-> {}, drained |-> 0, drainWrites |-> 0,
               tried |-> {Earlier.id}, sentOk |-> {}]
    /\ cyc = [t \in Triggers |-> NoCycle]
    /\ prevQueue = <<>>
    /\ view = <<>>
    /\ remote = [t \in AllPullTables |-> RemoteTable(RemoteRows)]
    /\ rows = [t \in AllPullTables |-> <<>>]
    /\ peer = <<>>
    /\ faulty = FALSE
    /\ adding = <<>>

\* queueOperation up to the read of addToQueue: the write is sent; when it
\* fails addToQueue is called and reads the stored queue
AddToQueueRead(m) ==
    /\ nextId + Len(adding) <= MaxItems
    /\ \E ok \in WriteOutcomes(m) :
         IF ok
         THEN /\ remote' = remoteApply(remote, m)
              /\ adding' = adding
              /\ lastAct' = [Act("queueOperation", "store", NoResult) EXCEPT
                               !.queued = Queued(TRUE, "executed", 0)]
         ELSE /\ remote' = remote
              /\ adding' = Append(adding, [item |-> operationItem(m), read |-> queue])
              /\ lastAct' = Idle
    /\ UNCHANGED <<queue, syncStatus, cache, clock, nextId, netOnline, isOnline,
                   syncInProgress, pc, loc, hist, cyc, storeVars, rows, peer, faulty>>

\* the rest of addToQueue and of queueOperation: the item is pushed onto the
\* array that was read, the array is stored, the error of the write thrown on
AddToQueueWrite ==
    /\ adding # <<>>
    /\ \E k \in 1..Len(adding) :
         /\ queue' = addToQueue(adding[k].read, adding[k].item, nextId, clock)
         /\ adding' = SubSeq(adding, 1, k - 1) \o SubSeq(adding, k + 1, Len(adding))
    /\ nextId' = nextId + 1
    /\ hist' = [hist EXCEPT !.drained = 0, !.drainWrites = 0, !.tried = @ \cup {nextId}]
    /\ lastAct' = [Act("queueOperation", "store", NoResult) EXCEPT
                      !.queued = Queued(TRUE, "error", nextId)]
    /\ UNCHANGED <<syncStatus, cache, clock, netOnline, isOnline, syncInProgress,
                   pc, loc, cyc, storeVars, remote, rows, peer, faulty>>

\* the loop body after processQueueItem, up to the read of the stored queue
\* inside removeFromQueue or updateQueueItem; for an item out of retries
\* there is no storage call: failedItems++ and an error
SettleRead(t) ==
    /\ pc[t] = "settle"
    /\ LET item == loc[t].snap[loc[t].idx]
           last == loc[t].idx = Len(loc[t].snap)
           l1   == [loc[t] EXCEPT !.outcome = "none", !.idx = @ + 1]
       IN  IF loc[t].outcome = "ok" \/ shouldRetryItem(item)
           THEN /\ loc' = [loc EXCEPT ![t].read = queue]
                /\ pc' = [pc EXCEPT ![t] = "store"]
           ELSE /\ loc' = [loc EXCEPT ![t] =
                             [l1 EXCEPT !.failedItems = @ + 1,
                                        !.errors = Append(@, [msg |-> "Failed to sync item",
                                                              item |-> item.id])]]
                /\ pc' = [pc EXCEPT ![t] = IF last THEN "pull" ELSE "write"]
    /\ lastAct' = Idle
    /\ UNCHANGED <<queue, syncStatus, cache, clock, nextId, netOnline, isOnline,
                   syncInProgress, hist, cyc, storeVars, dataVars>>

\* the write of removeFromQueue (the array read, without the item) or of
\* updateQueueItem (the array read, the item's retryCount raised; no write
\* when the item is not in it)
SettleWrite(t) ==
    /\ pc[t] = "store"
    /\ LET item == loc[t].snap[loc[t].idx]
           last == loc[t].idx = Len(loc[t].snap)
           l1   == [loc[t] EXCEPT !.outcome = "none", !.idx = @ + 1, !.read = <<>>]
       IN  /\ IF loc[t].outcome = "ok"
              THEN /\ queue' = removeFromQueue(loc[t].read, item.id)
                   /\ loc' = [loc EXCEPT ![t] = [l1 EXCEPT !.syncedItems = @ + 1]]
              ELSE /\ queue' = IF item.id \in {loc[t].read[i].id : i \in 1..Len(loc[t].read)}
                               THEN updateQueueItem(loc[t].read, item.id, item.retryCount + 1)
                               ELSE queue
                   /\ loc' = [loc EXCEPT ![t] = l1]
           /\ pc' = [pc EXCEPT ![t] = IF last THEN "pull" ELSE "write"]
    /\ lastAct' = Idle
    /\ UNCHANGED <<syncStatus, cache, clock, nextId, netOnline, isOnline, syncInProgress,
                   hist, cyc, storeVars, dataVars>>

NextI ==
    \/ \E m \in ProductMutations : AddToQueueRead(m)
    \/ AddToQueueWrite
    \/ SyncAll("ui")
    \/ DrainPrepare("ui")
    \/ DrainWrite("ui")
    \/ SettleRead("ui")
    \/ SettleWrite("ui")
    \/ SyncAllFinish("ui", AllPullTables)

SpecI == InitI /\ [][NextI]_vars

----------------------------------------------------------------------------
(* The process killed and started again at any point: what AsyncStorage      *)
(* holds is kept, the static fields of SyncService and every call in         *)
(* progress are gone.                                                        *)

\* the flag outlives the process
afterRestartKept(flag) == flag

\* private static syncInProgress = false
afterRestart(flag) ==
    FALSE

\* lastAct.was: the queue as the interrupted cycle had loaded it
Restart ==
    /\ syncInProgress' = afterRestart(syncInProgress)
    /\ isOnline' = TRUE
    /\ pc' = [t \in DOMAIN pc |-> "idle"]
    /\ loc' = [t \in DOMAIN loc |-> NoLocals]
    /\ cyc' = [t \in DOMAIN cyc |-> NoCycle]
    /\ adding' = <<>>
    /\ LET running == {t \in DOMAIN pc : pc[t] # "idle"}
       IN  lastAct' = [Act("restart", "none", NoResult) EXCEPT
                         !.was = IF running = {} THEN <<>>
                                 ELSE cyc[CHOOSE t \in running : TRUE].loaded]
    /\ UNCHANGED <<queue, syncStatus, cache, clock, nextId, netOnline, hist,
                   storeVars, remote, rows, peer, faulty>>

\* the triggers that call syncAll here
KTriggers == {"ui", "bg"}

NextK ==
    \/ \E m \in Mutations : HookQueueOperation(m)
    \/ \E t \in KTriggers : SyncAll(t)
    \/ \E t \in KTriggers : DrainPrepare(t)
    \/ \E t \in KTriggers : DrainWrite(t)
    \/ \E t \in KTriggers : DrainSettle(t)
    \/ \E t \in KTriggers : SyncAllReturn(t)
    \/ Restart

SpecK == Init /\ [][NextK]_vars

----------------------------------------------------------------------------
(* Properties *)

Running == {t \in Triggers : pc[t] # "idle"}

idsOf(q) == {q[i].id : i \in 1..Len(q)}

created == 1..(nextId - 1)

\* a syncAll call that ran a cycle has just returned
CycleReturned == lastAct.op = "syncAll" /\ lastAct.before > 0

\* C1: at most one performSync runs at a time, and a syncAll call that arrives
\* while a cycle is in progress returns { success: false, errors: ['Sync
\* already in progress'] } at once: it starts nothing, writes and reads nothing
\* on the remote, leaves the queue, the caches and the SyncStatus as they are
\* and leaves the in-progress flag set.
C1_SingleCycle ==
    /\ [](Cardinality(Running) <= 1)
    /\ [][\A t \in Triggers :
            (pc[t] = "idle" /\ syncInProgress
               /\ lastAct'.op \in {"syncAll", "performSync"} /\ lastAct'.who = t)
            => /\ lastAct'.result = AlreadyResult
               /\ lastAct'.op = "syncAll"
               /\ UNCHANGED <<queue, cache, syncStatus, syncInProgress, pc, loc, hist, cyc>>]_vars

\* a call was turned away while another trigger's cycle was waiting for the
\* remote to answer the write of a queue item
C1_Witness ==
    /\ lastAct.op = "syncAll"
    /\ lastAct.result = AlreadyResult
    /\ syncInProgress
    /\ \E t \in Triggers : t # lastAct.who /\ pc[t] = "write" /\ hist.written = {}

\* C2: a queue item is sent to the remote at most MAX_RETRY_COUNT times: it
\* is never sent when it has already failed MAX_RETRY_COUNT times.
C2_BoundedRetry ==
    \A t \in Triggers :
        pc[t] = "settle" => loc[t].snap[loc[t].idx].retryCount < MAX_RETRY_COUNT

\* C3: whenever no cycle is running, every item that is no longer in the queue
\* has been written to the remote or was reported in a returned SyncResult.
C3_NoSilentDiscard ==
    Running = {} =>
        \A id \in created :
            id \in idsOf(queue) \/ id \in hist.written \/ id \in hist.reported

\* C4: once a syncAll cycle has returned in which the remote accepted every
\* write, and as long as nothing is enqueued, the queue is empty and a further
\* syncAll cycle sends no write to the remote.
C4_IdempotentDrain ==
    /\ hist.drained > 0 => queue = <<>>
    /\ \A t \in Triggers :
          (pc[t] # "idle" /\ cyc[t].afterDrained /\ nextId = cyc[t].firstNew)
          => cyc[t].writes = 0

\* a cycle that wrote an item has returned, and a second cycle has returned
\* after it
C4_Witness ==
    /\ CycleReturned
    /\ hist.drained = 2
    /\ hist.drainWrites > 0
    /\ hist.written # {}

\* C5: a mutation handed to queueOperation by a store while the device is
\* offline is acknowledged as queued: the call adds one queue item and raises
\* no error.
C5_OfflineSaleQueued ==
    (lastAct.op = "queueOperation" /\ lastAct.who = "store" /\ ~lastAct.queued.online)
    => /\ lastAct.queued.outcome = "queued"
       /\ Len(queue) = lastAct.queued.lenBefore + 1

\* C6: queueOperation with the device connected attempts the write at once;
\* when the write succeeds nothing is enqueued, when it fails one item with
\* retryCount 0 is appended; and when a later syncAll cycle returns success,
\* every item that was enqueued before that cycle started has been written.
C6_FallbackThenWritten ==
    /\ (lastAct.op = "queueOperation" /\ lastAct.queued.online)
       => /\ lastAct.queued.attempted
          /\ lastAct.queued.outcome = "executed"
               => Len(queue) = lastAct.queued.lenBefore
          /\ lastAct.queued.outcome # "executed"
               => /\ Len(queue) = lastAct.queued.lenBefore + 1
                  /\ queue[Len(queue)].id = lastAct.queued.item
                  /\ queue[Len(queue)].retryCount = 0
    /\ (CycleReturned /\ lastAct.result.success)
       => \A id \in 1..(lastAct.before - 1) : id \in hist.written

\* C7: queueOperation called while the device is offline attempts no remote
\* write; it appends one item and ends as a queued acknowledgement.
C7_NoAttemptWhenDown ==
    (lastAct.op = "queueOperation" /\ ~lastAct.queued.online)
    => /\ ~lastAct.queued.attempted
       /\ lastAct.queued.outcome = "queued"

\* the (table, id) a queue item addresses, for a payload that carries an id
identity(item) == <<item.table, item.data.id>>

withIdentity(q, k) == {i \in 1..Len(q) : q[i].data.id # Missing /\ identity(q[i]) = k}

\* item x was enqueued after item y, or is y
notBefore(x, y) ==
    \/ x.timestamp > y.timestamp
    \/ x.timestamp = y.timestamp /\ x.id >= y.id

\* C8: after deduplicateQueue, every (table, id) that had queued items has
\* exactly one: the one with the latest timestamp, the later enqueued one when
\* timestamps tie.
C8_OneEffectiveOperation ==
    lastAct.op = "deduplicateQueue" =>
        \A i \in 1..Len(prevQueue) :
            prevQueue[i].data.id # Missing =>
                LET k      == identity(prevQueue[i])
                    before == withIdentity(prevQueue, k)
                    after  == withIdentity(queue, k)
                IN  /\ Cardinality(after) = 1
                    /\ \A j \in after :
                         /\ \E b \in before : prevQueue[b] = queue[j]
                         /\ \A b \in before : notBefore(queue[j], prevQueue[b])

\* update(A, 1) then update(A, 2), enqueued in the same tick, next to an
\* update of the same id in another table: A's later update is kept
C8_Witness ==
    /\ lastAct.op = "deduplicateQueue"
    /\ Len(prevQueue) = 3
    /\ \E i, j \in 1..3 :
         /\ i < j
         /\ identity(prevQueue[i]) = <<"products", "A">>
         /\ identity(prevQueue[j]) = <<"products", "A">>
         /\ prevQueue[i].data.val = 1 /\ prevQueue[j].data.val = 2
         /\ prevQueue[i].timestamp = prevQueue[j].timestamp
         /\ \E n \in 1..Len(queue) : queue[n] = prevQueue[j]
    /\ \E i \in 1..3 : identity(prevQueue[i]) = <<"sales", "A">>
    /\ Len(queue) = 2

position(q, id) == CHOOSE i \in 1..Len(q) : q[i].id = id

\* C9: deduplicateQueue keeps the items it retains in the order they had.
C9_NoReorder ==
    lastAct.op = "deduplicateQueue" =>
        \A i, j \in 1..Len(queue) :
            i < j => position(prevQueue, queue[i].id) < position(prevQueue, queue[j].id)

\* the rank of a priority: critical < high < normal < low, none = normal
rank(p) ==
    IF p = "critical" THEN 0
    ELSE IF p = "high" THEN 1
    ELSE IF p = "low" THEN 3
    ELSE 2

\* C10: getPrioritizedQueue returns the stored items, each once, ordered by
\* priority rank and, within one rank, by timestamp, oldest first.
C10_PriorityOrder ==
    lastAct.op = "getPrioritizedQueue" =>
        /\ Len(view) = Len(queue)
        /\ \A i \in 1..Len(queue) : \E j \in 1..Len(view) : view[j] = queue[i]
        /\ \A i, j \in 1..Len(view) :
             i < j =>
                \/ rank(view[i].priority) < rank(view[j].priority)
                \/ /\ rank(view[i].priority) = rank(view[j].priority)
                   /\ view[i].timestamp <= view[j].timestamp

\* items enqueued as low, critical, normal come back as critical, normal, low
C10_Witness ==
    /\ lastAct.op = "getPrioritizedQueue"
    /\ Len(queue) = 3
    /\ queue[1].priority = "low" /\ queue[2].priority = "critical"
    /\ queue[3].priority = "normal"
    /\ queue[3].data.name = "n1"
    /\ view = <<queue[2], queue[3], queue[1]>>

\* C18: when a syncAll call that ran a cycle returns, the stored SyncStatus
\* gives as pendingItems the number of items in the queue.
C18_PendingIsQueueSize ==
    CycleReturned => syncStatus.pendingItems = Len(queue)

\* C20: when a syncAll call that ran a cycle returns and the remote refused
\* the write of at least one queue item in that cycle, the result has
\* success = false and counts or lists a failure.
C20_FailuresAccumulated ==
    (CycleReturned /\ ~lastAct.clean)
    => /\ ~lastAct.result.success
       /\ lastAct.result.failedItems > 0 \/ lastAct.result.errors # <<>>

\* items x, y are in prioritized order: x of a higher priority than y, or of
\* the same and not newer
inOrder(x, y) ==
    \/ rank(x.priority) < rank(y.priority)
    \/ rank(x.priority) = rank(y.priority) /\ x.timestamp <= y.timestamp

\* C11: the queue syncOfflineQueue loads holds every item then stored; the
\* items are sent to the remote in prioritized order (higher priority first,
\* within one priority older first), each at most once per cycle; and when
\* the loop is over every loaded item has been sent, whether or not the
\* writes before it failed.
C11_DrainOrder ==
    /\ [](\A t \in Triggers :
            LET sent == cyc[t].sent
            IN  /\ \A i, j \in 1..Len(sent) : i < j => inOrder(sent[i], sent[j])
                /\ \A i, j \in 1..Len(sent) : i < j => sent[i].id # sent[j].id
                /\ \A i \in 1..Len(sent) :
                      \A k \in 1..Len(cyc[t].loaded) :
                          rank(cyc[t].loaded[k].priority) < rank(sent[i].priority)
                          => \E j \in 1..(i - 1) : sent[j] = cyc[t].loaded[k]
                /\ pc[t] = "pull"
                      => \A k \in 1..Len(cyc[t].loaded) :
                            \E i \in 1..Len(sent) : sent[i] = cyc[t].loaded[k])
    /\ [][\A t \in Triggers :
            (pc[t] = "prepare" /\ pc'[t] # "prepare")
            => idsOf(cyc'[t].loaded) = idsOf(queue')]_vars

\* three items were sent, enqueued in another order than sent: the remote
\* refused the first, of the highest priority, and accepted the last, the
\* newer of two of one priority
C11_Witness ==
    /\ pc["ui"] = "pull"
    /\ Len(cyc["ui"].sent) = 3
    /\ LET sent == cyc["ui"].sent
       IN  /\ sent[1].id \notin hist.written
           /\ sent[3].id \in hist.written
           /\ rank(sent[1].priority) < rank(sent[2].priority)
           /\ rank(sent[2].priority) = rank(sent[3].priority)
           /\ sent[2].timestamp < sent[3].timestamp
           /\ sent[1].id > sent[3].id

\* the places of the rows with that id in a list
placesOf(list, id) == {i \in 1..Len(list) : list[i].id = id}

\* the identity has a local operation pending: a queue item names it, or it
\* is an optimistic sale of the cache as it was
pendingOp(table, id) ==
    \/ \E i \in 1..Len(queue) : queue[i].table = table /\ queue[i].data.id = id
    \/ /\ table = "sales"
       /\ isTemp(id)
       /\ \E i \in placesOf(lastAct.was[table], id) : lastAct.was[table][i].status = "pending"

\* C12: when a cycle returns, for every table whose pull succeeded and every
\* identity without a pending local operation: the cache holds the remote's
\* record, once and as the remote gave it; it holds no record the remote
\* did not give; and the records are in the order the remote gave them.
C12_RemoteWins ==
    CycleReturned =>
        \A table \in lastAct.pulled :
            LET got == remote[table]
                now == rows[table]
            IN  /\ \A i \in 1..Len(got) :
                      ~pendingOp(table, got[i].id)
                      => /\ Cardinality(placesOf(now, got[i].id)) = 1
                         /\ \A j \in placesOf(now, got[i].id) : now[j] = got[i]
                /\ \A j \in 1..Len(now) :
                      ~pendingOp(table, now[j].id) => placesOf(got, now[j].id) # {}
                /\ \A j, k \in 1..Len(now) :
                      (j < k /\ ~pendingOp(table, now[j].id) /\ ~pendingOp(table, now[k].id))
                      => \A a \in placesOf(got, now[j].id), b \in placesOf(got, now[k].id) : a < b

\* the cache held P with f = 10 and Q; the remote gave P with f = 8 and no Q:
\* the cache holds P with f = 8 only
C12_Witness ==
    /\ CycleReturned
    /\ "products" \in lastAct.pulled
    /\ lastAct.was["products"] = <<Row("P", 10, "completed"), Row("Q", 10, "completed")>>
    /\ rows["products"] = <<Row("P", 8, "completed")>>

\* C14: a pending optimistic sale of the cache (id temp_..., status pending)
\* of which the remote has no record is still in the cache, with the same
\* fields, when a cycle returns, and the return of the cycle with its pull
\* leaves the queue as it was.
C14_PendingCreateKept ==
    /\ [](CycleReturned =>
            \A i \in 1..Len(lastAct.was["sales"]) :
                LET sale == lastAct.was["sales"][i]
                IN  (isTemp(sale.id) /\ sale.status = "pending" /\ ~hasRow("sales", sale.id))
                    => \E j \in 1..Len(rows["sales"]) : rows["sales"][j] = sale)
    /\ [][\A t \in Triggers : (pc[t] = "pull" /\ pc'[t] = "idle") => queue' = queue]_vars

\* the sales were pulled while the cache held the optimistic sale and the
\* queue its create, refused by the remote in this cycle: the cache holds the
\* remote's sales and the optimistic sale
C14_Witness ==
    /\ CycleReturned
    /\ "sales" \in lastAct.pulled
    /\ lastAct.was["sales"] = <<OptimisticSale>>
    /\ Len(queue) = 1 /\ queue[1].table = "sales" /\ queue[1].type = "create"
    /\ queue[1].retryCount = 1
    /\ rows["sales"] = remote["sales"] \o <<OptimisticSale>>

\* the error messages of a result that name no queue item
tableErrors(result, table) ==
    {i \in 1..Len(result.errors) : result.errors[i].msg = "Failed to sync " \o table}

\* C16: when a cycle returns, whatever the set of tables whose read failed:
\* every other table's cache holds the rows read and is stamped now, every
\* failed table's cache is as it was, and the result has one error message
\* for each failed table, none for the others, and counts one failure for
\* each failed table on top of the queue items it reports.
C16_PullIsolation ==
    CycleReturned =>
        LET failed == AllPullTables \ lastAct.pulled
            result == lastAct.result
        IN  /\ \A table \in lastAct.pulled :
                  /\ cache[table] = clock
                  /\ \A i \in 1..Len(remote[table]) :
                        \E j \in 1..Len(rows[table]) : rows[table][j] = remote[table][i]
                  /\ tableErrors(result, table) = {}
            /\ \A table \in failed :
                  /\ rows[table] = lastAct.was[table]
                  /\ Cardinality(tableErrors(result, table)) = 1
            /\ result.failedItems = Cardinality(failed) + Cardinality(reportedIn(result))
            /\ Len(result.errors) = result.failedItems

\* the reads of the sales and of the sellers failed: the products and the
\* categories are cached, the cached sales are as they were, the result
\* counts two failures
C16_Witness ==
    /\ CycleReturned
    /\ lastAct.pulled = {"products", "categories"}
    /\ rows["products"] = remote["products"] /\ rows["categories"] = remote["categories"]
    /\ rows["sales"] = <<OptimisticSale>> /\ rows["sellers"] = <<>>
    /\ lastAct.result.failedItems = 2
    /\ ~lastAct.result.success

\* C13: once this device's queued update of P to 8 has been accepted by the
\* remote in a drain, every pull of the products that succeeds on the second
\* device leaves P with 8 in that device's cache.
C13_TwoDeviceConvergence ==
    (/\ lastAct.op = "syncFromServer" /\ lastAct.who = "peer"
     /\ <<"products", "update", "P", 8>> \in hist.sentOk)
    => /\ placesOf(peer, "P") # {}
       /\ \A i \in placesOf(peer, "P") : peer[i].f = 8

\* the second device had cached P with 10, this device still has; its queued
\* update has been drained, and the second device's pull brought 8
C13_Witness ==
    /\ lastAct.op = "syncFromServer" /\ lastAct.who = "peer"
    /\ <<"products", "update", "P", 8>> \in hist.sentOk
    /\ \E i \in placesOf(lastAct.was, "P") : lastAct.was[i].f = 10
    /\ \E i \in placesOf(rows["products"], "P") : rows["products"][i].f = 10
    /\ \E i \in placesOf(peer, "P") : peer[i].f = 8

\* the products cache has just been written, by the pull of a cycle or by the
\* products store's fetch
ProductsCached ==
    \/ lastAct.op = "fetchProducts"
    \/ CycleReturned /\ "products" \in lastAct.pulled

\* C15: whenever the products cache is written, by the pull of a cycle or by
\* the store's fetch, with a collection that holds X while a delete of X is
\* queued, that delete has been sent to the remote at least once.
C15_PendingDeleteTried ==
    ProductsCached =>
        \A i \in 1..Len(queue) :
            (/\ queue[i].table = "products" /\ queue[i].type = "delete"
             /\ placesOf(rows["products"], queue[i].data.id) # {})
            => queue[i].id \in hist.tried

\* the store's fetch cached Q while the delete of Q was queued, not yet sent
\* by any drain
C15_Witness ==
    /\ lastAct.op = "fetchProducts"
    /\ Len(queue) = 1
    /\ queue[1].type = "delete" /\ queue[1].data.id = "Q" /\ queue[1].retryCount = 0
    /\ placesOf(rows["products"], "Q") # {}
    /\ placesOf(lastAct.was["products"], "Q") = {}

\* C17: every syncAll call that ran a cycle has written the SyncStatus exactly
\* once when it returns, whether the cycle succeeded, partly succeeded or
\* failed, the calls that return through the catch of syncAll included.
C17_StatusWrittenOnce ==
    CycleReturned => lastAct.statusWrites = 1

\* a record { success, syncedItems, failedItems, errors }
isSyncResult(r) ==
    /\ r # NoResult
    /\ DOMAIN r = {"success", "syncedItems", "failedItems", "errors"}
    /\ r.success \in BOOLEAN
    /\ r.syncedItems \in Nat
    /\ r.failedItems \in Nat

\* C19: every syncAll call hands a SyncResult to its caller and is over then
\* (its caller runs on, the in-progress flag of a cycle is cleared), whatever
\* the remote refuses or fails to answer and whichever reads and writes of
\* the local storage - queue, caches, status - fail during the cycle.
C19_SyncAllNeverRaises ==
    lastAct.op = "syncAll" =>
        /\ isSyncResult(lastAct.result)
        /\ pc[lastAct.who] = "idle"
        /\ CycleReturned => ~syncInProgress

\* the storage failing, the write of the status was rejected at the end of a
\* cycle with an item still queued: syncAll returned the result of its catch
C19_Witness ==
    /\ faulty
    /\ CycleReturned
    /\ lastAct.statusWrites = 0
    /\ lastAct.result = FailureResult
    /\ Len(queue) > 0

\* C28: deduplicateQueue drops no create whose payload carries no id: two
\* sales recorded offline are distinct new entities, and both are still
\* queued afterwards.
C28_DistinctCreatesKept ==
    lastAct.op = "deduplicateQueue" =>
        \A i \in 1..Len(prevQueue) :
            (prevQueue[i].type = "create" /\ prevQueue[i].data.id = Missing)
            => prevQueue[i].id \in idsOf(queue)

\* C30: a queued create of a sale is stored with priority 'high'.
C30_SaleIsHighPriority ==
    \A i \in 1..Len(queue) :
        (queue[i].table = "sales" /\ queue[i].type = "create")
        => queue[i].priority = "high"

\* the backend refuses the write of the item wherever it is sent: an update
\* of a row the remote does not hold
refused(item) == item.type = "update" /\ ~hasRow(item.table, item.data.id)

\* C21: when the drain of a cycle has ended, every item sent in it whose write
\* the backend refused is among the failed items the cycle reports.
C21_RejectedExhausted ==
    \A t \in {"ui"} :
        pc[t] = "pull" =>
            \A i \in 1..Len(cyc[t].sent) :
                refused(cyc[t].sent[i]) =>
                    \E e \in 1..Len(loc[t].errors) :
                        loc[t].errors[e].item = cyc[t].sent[i].id

\* the item whose remote write caller c has in flight: c waits at
\* await this.processQueueItem(item)
inFlight(c) == IF pc[c] = "write" THEN {loc[c].snap[loc[c].idx].id} ELSE {}

\* C29: no queue item has two remote writes in flight at a time, whichever
\* way syncAll and the calls of retryFailedOperations overlap.
C29_OneWriteInFlight ==
    \A c1, c2 \in DOMAIN pc :
        c1 # c2 => inFlight(c1) \cap inFlight(c2) = {}

\* C23: no queued create is accepted by the remote twice: when the remote
\* accepts the create a caller sends, it had not accepted that item before.
C23_NoDuplicateCreate ==
    [][\A c \in DOMAIN pc :
          (/\ pc[c] = "write" /\ pc'[c] = "settle"
           /\ loc'[c].outcome = "ok"
           /\ loc[c].snap[loc[c].idx].type = "create")
          => loc[c].snap[loc[c].idx].id \notin hist.written]_vars

\* C22: a call of addToQueue either raises the storage failure, the stored
\* queue being as it was, or leaves the stored queue equal to the previous
\* one with the new item appended.
C22_AppendOnly ==
    (lastAct.op = "addToQueue" /\ lastAct.who = "store") =>
        \/ lastAct.queued.outcome = "error" /\ queue = prevQueue
        \/ /\ lastAct.queued.outcome # "error"
           /\ Len(queue) = Len(prevQueue) + 1
           /\ SubSeq(queue, 1, Len(prevQueue)) = prevQueue

\* the item was enqueued before the cutoff, now - hoursOld hours
olderThanCutoff(item, hoursOld, now) ==
    item.timestamp * TickHours < now * TickHours - hoursOld

\* C26: cleanupOldQueueItems() removes exactly the items enqueued before the
\* cutoff, keeps the others in their order, and logs the number of items it
\* removed whenever it removed one.
C26_CleanupExact ==
    (lastAct.op = "cleanupOldQueueItems" /\ lastAct.who = "store") =>
        /\ queue = SelectSeq(prevQueue,
                     LAMBDA it : ~olderThanCutoff(it, DEFAULT_HOURS_OLD, clock))
        /\ Len(queue) < Len(prevQueue) => lastAct.logged = Len(prevQueue) - Len(queue)

\* C27: whichever way a call of addToQueue and the removeFromQueue and
\* updateQueueItem calls of a drain overlap, the write of each leaves the
\* other's work in place: an item goes out of the stored queue only when the
\* drain removes it after its accepted write (or drops it while preparing),
\* and the only item that comes into the stored queue is the new one - no
\* queued mutation is lost and no removed item comes back.
C27_NoLostUpdate ==
    [][/\ \A id \in idsOf(queue) \ idsOf(queue') :
            \/ \E t \in Triggers : pc[t] = "prepare" /\ pc'[t] # "prepare"
            \/ \E t \in Triggers :
                  /\ pc[t] = "store" /\ pc'[t] # "store"
                  /\ loc[t].outcome = "ok"
                  /\ loc[t].snap[loc[t].idx].id = id
       /\ \A id \in idsOf(queue') \ idsOf(queue) :
            adding # <<>> /\ id = nextId]_vars

\* C24: when the process is killed during a cycle and started again, every
\* item the interrupted drain had loaded and the remote has not accepted is
\* still in the stored queue and the in-progress flag is clear; and a syncAll
\* call is answered 'Sync already in progress' only while a cycle is running,
\* so the first call after the restart runs a cycle.
C24_SafelyInterruptible ==
    /\ lastAct.op = "restart" =>
          /\ \A i \in 1..Len(lastAct.was) :
                lastAct.was[i].id \in idsOf(queue) \cup hist.written
          /\ ~syncInProgress
    /\ (lastAct.op = "syncAll" /\ lastAct.result = AlreadyResult) => Running # {}

\* the process was killed in a cycle, not the first, that had loaded an item
\* the remote has not accepted: the item is in the stored queue
C24_Witness ==
    /\ lastAct.op = "restart"
    /\ \E i \in 1..Len(lastAct.was) :
         /\ lastAct.was[i].id \notin hist.written
         /\ lastAct.was[i].id \in idsOf(queue)
    /\ ~syncInProgress
    /\ syncStatus # NoStatus

============================================================================
